---- MODULE Spec2Model ----
(***************************************************************************)
(* A model of the Go binding LibConfig.go: the settings tree engine, the   *)
(* typed set/add/remove operations with their write-back to the backing    *)
(* store, and the package-level RWMutex guarding ReadFile/WriteFile.       *)
(*                                                                         *)
(* The C library behind the cgo calls (config_setting_set_int, ...) is not *)
(* part of the repository; each C function is modelled at the place the Go *)
(* code calls it, by the contract the libconfig manual gives it.           *)
(***************************************************************************)
EXTENDS Integers, Sequences, FiniteSets, TLC

(* ---- ValueType, LibConfig.go lines 20-30 ---- *)
CConfigTypeNone == 0
CConfigTypeGroup == 1
CConfigTypeInt == 2
CConfigTypeInt64 == 3
CConfigTypeFloat == 4
CConfigTypeString == 5
CConfigTypeBool == 6
CConfigTypeArray == 7
CConfigTypeList == 8

(* cConfigFalse / cConfigTrue, LibConfig.go lines 32-35 *)
cConfigFalse == 0
cConfigTrue == 1

(* ---- bounds of the model ---- *)
\* NewLibConfig is called at most MaxTrees - 1 times after the first one.
MaxTrees == 2
\* A container holds at most MaxLen children.
MaxLen == 2
\* At most MaxReaders read locks are ever outstanding on one lock instance.
MaxReaders == 2

Threads == {1, 2}
TreeIds == 1..MaxTrees
\* Lock instances: NewLibConfig number k allocates instance k; 0 is the nil pointer.
LockIds == 1..MaxTrees

\* File names. "" is the zero value of LibConfig.configFile.
NoPath == ""
Paths == {"f", "g"}
\* A path with no file behind it.
NoFile == [name |-> "", type |-> -1, val |-> 0, kids |-> <<>>]

\* Setting names. NoName is the NULL name of the root and of list/array elements.
NoName == ""
Names == {"a", "b"}

ScalarKinds ==
    {CConfigTypeInt, CConfigTypeInt64, CConfigTypeFloat, CConfigTypeString, CConfigTypeBool}
ContainerKinds == {CConfigTypeGroup, CConfigTypeArray, CConfigTypeList}

(***************************************************************************)
(* Payloads.  An integer, 64-bit integer, boolean (0/1, as the Go code     *)
(* passes it to C) or string tag is a small number; a floating point value *)
(* is counted in halves: 3 is 1.5, (int)1.5 = 1.                      *)
(***************************************************************************)
ValsOf(kind) ==
    CASE kind = CConfigTypeFloat -> {3, 4}
      [] kind = CConfigTypeBool -> {0, 1}
      [] kind \in ScalarKinds -> {1, 2}
      [] OTHER -> {0}

IntToFloat(i) == 2 * i
FloatToInt(f) == f \div 2

(* ---- the settings tree (config_setting_t) ---- *)
Node(name, type, val, kids) == [name |-> name, type |-> type, val |-> val, kids |-> kids]

\* config_init leaves an empty, unnamed root group.
EmptyRoot == Node(NoName, CConfigTypeGroup, 0, <<>>)

\* A *C.config_setting_t is the position of the node in its tree; NilSetting is NULL.
NilSetting == <<0>>

NodeAt(root, h) ==
    IF h = <<>> THEN root
    ELSE IF Len(h) = 1 THEN root.kids[h[1]]
    ELSE root.kids[h[1]].kids[h[2]]

\* The handles of the nodes of a tree, two levels deep.
Settings(root) ==
    {<<>>} \cup {<<i>> : i \in 1..Len(root.kids)}
           \cup UNION {{<<i, j>> : j \in 1..Len(root.kids[i].kids)} : i \in 1..Len(root.kids)}

ReplaceAt(root, h, n) ==
    IF h = <<>> THEN n
    ELSE IF Len(h) = 1 THEN [root EXCEPT !.kids[h[1]] = n]
    ELSE [root EXCEPT !.kids[h[1]].kids[h[2]] = n]

\* Faulty variant: the last element is dropped, the others stay where they are.
RemoveLast(s, i) == SubSeq(s, 1, Len(s) - 1)

\* The element at position i leaves; the elements behind it move down by one.
RemoveIndex(s, i) == [k \in 1..(Len(s) - 1) |-> IF k < i THEN s[k] ELSE s[k + 1]]

(***************************************************************************)
(* The serializer and the parser are external (libconfig's writer and      *)
(* grammar).  A file's text is represented by the settings it spells out;  *)
(* BadText is a text the grammar rejects.                                  *)
(***************************************************************************)
Serialize(root) == root
BadText == [name |-> "", type |-> -2, val |-> 0, kids |-> <<>>]
ParseOk(text) == text.type = CConfigTypeGroup
Parse(text) == IF ParseOk(text) THEN text ELSE EmptyRoot

\* The example configuration of readme.md / test.cfg, cut to the model's size:
\* a = 1 (Int), b = ("alice", "bob") (List of String).
SampleRoot ==
    Node(NoName, CConfigTypeGroup, 0,
         << Node("a", CConfigTypeInt, 1, <<>>),
            Node("b", CConfigTypeList, 0,
                 << Node(NoName, CConfigTypeString, 1, <<>>),
                    Node(NoName, CConfigTypeString, 2, <<>>) >>) >>)

\* ConfigOption, LibConfig.go lines 48-54 (only the flag the setters read).
ConfigOptionAutoConvert == 1

\* config_init leaves the tab width at the library's default.
DefaultTabWidth == 2

(***************************************************************************)
(* State.                                                                  *)
(*   nTrees        number of LibConfig objects NewLibConfig has returned   *)
(*   configFile    LibConfig.configFile of each object                     *)
(*   cRoot         cConf.root of each object: its settings tree            *)
(*   cOptions      cConf.options of each object                            *)
(*   cTabWidth     cConf.tab_width of each object                          *)
(*   mutex         the package variable: the lock instance it points to    *)
(*   lockW, lockR  each sync.RWMutex instance: writer held, readers held   *)
(*   store         the files: path -> text                                 *)
(*   pc, op        each goroutine's position and the call it is inside     *)
(*   ret           the result of the goroutine's last completed call: its  *)
(*                 error status, the handle and the value it returned      *)
(*   held          the lock instance the running call acquired (0: none)   *)
(*   pre           the tree and the store when the running call started    *)
(*   wrote         whether the running call has written the store          *)
(*   crashed       a runtime fatal error has ended the process             *)
(***************************************************************************)
VARIABLES nTrees, configFile, cRoot, cOptions, cTabWidth, mutex, lockW, lockR, store,
          pc, op, ret, held, pre, wrote, crashed

vars == <<nTrees, configFile, cRoot, cOptions, cTabWidth, mutex, lockW, lockR, store,
          pc, op, ret, held, pre, wrote, crashed>>

confVars == <<nTrees, configFile, cRoot, cOptions, cTabWidth>>
lockVars == <<mutex, lockW, lockR>>

NoOp == [name |-> "none", c |-> 0, h |-> <<>>, kind |-> 0, val |-> 0,
         idx |-> 0, nm |-> NoName, path |-> NoPath, res |-> <<0>>, rc |-> 0]
NoRet == [status |-> "none", h |-> NilSetting, val |-> 0]
NoPre == [root |-> EmptyRoot, store |-> [p \in Paths |-> NoFile]]

\* A call: the method, its receiver (c, h) and arguments, and its locals: res, the
\* setting (or text) it works on, and rc, what the C setter returned.
Call(name, c, h, kind, val, idx, nm, path, res) ==
    [name |-> name, c |-> c, h |-> h, kind |-> kind, val |-> val,
     idx |-> idx, nm |-> nm, path |-> path, res |-> res, rc |-> 0]

\* NewLibConfig, run once: one object, a fresh lock, an empty root.
Init ==
    /\ nTrees = 1
    /\ configFile = [c \in TreeIds |-> NoPath]
    /\ cRoot = [c \in TreeIds |-> EmptyRoot]
    /\ cOptions = [c \in TreeIds |-> 0]
    /\ cTabWidth = [c \in TreeIds |-> DefaultTabWidth]
    /\ mutex = 1
    /\ lockW = [m \in LockIds |-> FALSE]
    /\ lockR = [m \in LockIds |-> 0]
    /\ store = [p \in Paths |-> IF p = "f" THEN Serialize(SampleRoot) ELSE NoFile]
    /\ pc = [t \in Threads |-> "idle"]
    /\ op = [t \in Threads |-> NoOp]
    /\ ret = [t \in Threads |-> NoRet]
    /\ held = [t \in Threads |-> 0]
    /\ pre = [t \in Threads |-> NoPre]
    /\ wrote = [t \in Threads |-> FALSE]
    /\ crashed = FALSE

Live == 1..nTrees

\* The calls that only read the tree (the two persists).
PersistOps == {"WriteFile", "WriteToFile"}
Running(t) == pc[t] \notin {"idle", "panicked"}

(***************************************************************************)
(* The caller's side of the contract: the tree itself is unguarded, so the *)
(* caller never runs a call that changes a tree while another goroutine is *)
(* inside a call on the same tree.  Two persists of one tree may overlap.  *)
(***************************************************************************)
MayStart(t, name, c) ==
    /\ ~crashed
    /\ pc[t] = "idle"
    /\ c \in Live
    /\ \A u \in Threads \ {t} :
          (Running(u) /\ op[u].c = c) => (name \in PersistOps /\ op[u].name \in PersistOps)

\* What a call on the settings finds when it starts.
Snapshot(c) == [root |-> cRoot[c], store |-> store]

\* Entering a call: the call record, and the snapshot the frame claims compare with.
Enter(t, call, label, snap) ==
    /\ pc' = [pc EXCEPT ![t] = label]
    /\ op' = [op EXCEPT ![t] = call]
    /\ pre' = [pre EXCEPT ![t] = snap]
    /\ wrote' = [wrote EXCEPT ![t] = FALSE]
    /\ held' = [held EXCEPT ![t] = 0]

\* The result of a call: "ok" (a nil error, a handle), "err" (an error, a nil handle).
Result(t, status, h) == ret' = [ret EXCEPT ![t] = [status |-> status, h |-> h, val |-> 0]]

\* The result of a call that returns a value and has no error result: "value", or
\* "nil" for Go's nil.
ResultValue(t, status, val) ==
    ret' = [ret EXCEPT ![t] = [status |-> status, h |-> NilSetting, val |-> val]]

\* Returning from a call that took more than one step.
Return(t, status, h) ==
    /\ pc' = [pc EXCEPT ![t] = "idle"]
    /\ Result(t, status, h)

(***************************************************************************)
(* The package-level lock, LibConfig.go line 56 and NewLibConfig.          *)
(***************************************************************************)

\* func NewLibConfig: a new object, and the package variable mutex is pointed
\* at a new RWMutex, whatever the old one is held for.
NewLibConfig(t) ==
    /\ ~crashed
    /\ pc[t] = "idle"
    /\ nTrees < MaxTrees
    /\ nTrees' = nTrees + 1
    /\ mutex' = nTrees + 1
    /\ configFile' = [configFile EXCEPT ![nTrees + 1] = NoPath]
    /\ cRoot' = [cRoot EXCEPT ![nTrees + 1] = EmptyRoot]
    /\ cOptions' = [cOptions EXCEPT ![nTrees + 1] = 0]
    /\ cTabWidth' = [cTabWidth EXCEPT ![nTrees + 1] = DefaultTabWidth]
    /\ op' = [op EXCEPT ![t] = Call("NewLibConfig", nTrees + 1, <<>>, 0, 0, 0, NoName, NoPath, NilSetting)]
    /\ Result(t, "ok", NilSetting)
    /\ UNCHANGED <<lockW, lockR, store, pc, held, pre, wrote, crashed>>

(* ---- sync.RWMutex, on the instance the package variable points to ---- *)
\* RLock blocks while a writer holds the instance.
CanRLock(m) == ~lockW[m] /\ lockR[m] < MaxReaders
\* Lock blocks while a writer or any reader holds it.
CanLock(m) == ~lockW[m] /\ lockR[m] = 0

(***************************************************************************)
(* func (c *LibConfig) ReadFile, lines 91-102.                             *)
(***************************************************************************)
ReadFile(t, c, path) ==
    /\ MayStart(t, "ReadFile", c)
    /\ Enter(t, Call("ReadFile", c, <<>>, 0, 0, 0, NoName, path, NilSetting), "rf_lock", NoPre)
    /\ UNCHANGED <<confVars, lockVars, store, ret, crashed>>

\* line 92: mutex.RLock()
ReadFileRLock(t) ==
    /\ ~crashed
    /\ pc[t] = "rf_lock"
    /\ CanRLock(mutex)
    /\ lockR' = [lockR EXCEPT ![mutex] = @ + 1]
    /\ held' = [held EXCEPT ![t] = mutex]
    /\ pc' = [pc EXCEPT ![t] = "rf_read"]
    /\ UNCHANGED <<confVars, mutex, lockW, store, op, ret, pre, wrote, crashed>>

\* Faulty variant: configFile is assigned only when the file was read.
ReadFileReadKeepsPath(t, io) ==
    /\ ~crashed
    /\ pc[t] = "rf_read"
    /\ LET c == op[t].c
           text == store[op[t].path]
       IN IF io /\ text # NoFile
             THEN /\ configFile' = [configFile EXCEPT ![c] = op[t].path]
                  /\ cRoot' = [cRoot EXCEPT ![c] = Parse(text)]
                  /\ pc' = [pc EXCEPT ![t] = "rf_unlock"]
                  /\ ret' = ret
             ELSE /\ UNCHANGED <<configFile, cRoot>>
                  /\ Return(t, "err", NilSetting)
    /\ UNCHANGED <<nTrees, cTabWidth, cOptions, lockVars, store, op, held, pre, wrote, crashed>>

\* lines 93-99: configFile is assigned, the file is read and parsed; on failure the
\* method returns the error, and line 100 is not reached.
ReadFileRead(t, io) ==
    /\ ~crashed
    /\ pc[t] = "rf_read"
    /\ LET c == op[t].c
           text == store[op[t].path]
       IN /\ configFile' = [configFile EXCEPT ![c] = op[t].path]
          /\ IF io /\ text # NoFile
                THEN /\ cRoot' = [cRoot EXCEPT ![c] = Parse(text)]
                     /\ pc' = [pc EXCEPT ![t] = "rf_unlock"]
                     /\ ret' = ret
                ELSE /\ cRoot' = cRoot
                     /\ Return(t, "err", NilSetting)
    /\ UNCHANGED <<nTrees, cTabWidth, cOptions, lockVars, store, op, held, pre, wrote, crashed>>

\* line 100: mutex.RUnlock(), on the instance mutex points to now.  An RUnlock of an
\* instance no reader holds is a fatal error of the runtime.
ReadFileRUnlock(t) ==
    /\ ~crashed
    /\ pc[t] = "rf_unlock"
    /\ IF lockR[mutex] > 0
         THEN /\ lockR' = [lockR EXCEPT ![mutex] = @ - 1]
              /\ Return(t, "ok", NilSetting)
              /\ crashed' = crashed
         ELSE /\ crashed' = TRUE
              /\ UNCHANGED <<lockR, pc, ret>>
    /\ UNCHANGED <<confVars, mutex, lockW, store, op, held, pre, wrote>>

(***************************************************************************)
(* func (c *LibConfig) ReadString, lines 104-112: no lock is taken.        *)
(***************************************************************************)
Texts == {Serialize(SampleRoot), BadText}

ReadString(t, c, text) ==
    /\ MayStart(t, "ReadString", c)
    /\ Enter(t, Call("ReadString", c, <<>>, 0, 0, 0, NoName, NoPath, text), "rs_read", NoPre)
    /\ UNCHANGED <<confVars, lockVars, store, ret, crashed>>

\* lines 107-111: config_read_string clears the configuration and parses the text.
ReadStringRead(t) ==
    /\ ~crashed
    /\ pc[t] = "rs_read"
    /\ cRoot' = [cRoot EXCEPT ![op[t].c] = Parse(op[t].res)]
    /\ Return(t, IF ParseOk(op[t].res) THEN "ok" ELSE "err", NilSetting)
    /\ UNCHANGED <<nTrees, cTabWidth, configFile, cOptions, lockVars, store, op, held, pre, wrote, crashed>>

(***************************************************************************)
(* func (c *LibConfig) WriteFile, lines 114-124, and WriteToFile, lines    *)
(* 126-136.  The setters and add run WriteFile too: the same steps.        *)
(***************************************************************************)
WriteFile(t, c) ==
    /\ MayStart(t, "WriteFile", c)
    /\ Enter(t, Call("WriteFile", c, <<>>, 0, 0, 0, NoName, NoPath, NilSetting), "wf_lock", NoPre)
    /\ UNCHANGED <<confVars, lockVars, store, ret, crashed>>

WriteToFile(t, c, path) ==
    /\ MayStart(t, "WriteToFile", c)
    /\ Enter(t, Call("WriteToFile", c, <<>>, 0, 0, 0, NoName, path, NilSetting), "wf_lock", NoPre)
    /\ UNCHANGED <<confVars, lockVars, store, ret, crashed>>

\* lines 115 / 127: mutex.Lock()
WriteLock(t) ==
    /\ ~crashed
    /\ pc[t] = "wf_lock"
    /\ CanLock(mutex)
    /\ lockW' = [lockW EXCEPT ![mutex] = TRUE]
    /\ held' = [held EXCEPT ![t] = mutex]
    /\ pc' = [pc EXCEPT ![t] = "wf_write"]
    /\ UNCHANGED <<confVars, mutex, lockR, store, op, ret, pre, wrote, crashed>>

\* The file the call writes: WriteToFile's argument (line 128), else c.configFile (line 116).
TargetPath(t) == IF op[t].name = "WriteToFile" THEN op[t].path ELSE configFile[op[t].c]

\* Faulty variant: with the empty name, the file "f" is written.
config_write_file_default(root, path, io) ==
    IF io
    THEN [rc |-> cConfigTrue,
          store |-> [store EXCEPT ![IF path = NoPath THEN "f" ELSE path] = Serialize(root)]]
    ELSE [rc |-> cConfigFalse, store |-> store]

\* config_write_file: it fails when the file cannot be opened for writing (always so
\* for the empty name), and else replaces the file's text.
config_write_file(root, path, io) ==
    IF path # NoPath /\ io
    THEN [rc |-> cConfigTrue, store |-> [store EXCEPT ![path] = Serialize(root)]]
    ELSE [rc |-> cConfigFalse, store |-> store]

\* lines 116-121 / 128-133: on failure the method returns the error and the Unlock of
\* line 122 / 134 is not reached.  Every caller of WriteFile turns its error into its
\* own failure result (lines 313-314, 489, 509-510).
\* Faulty variant: the result of config_write_file is not looked at.
WriteNeverFailed(rc) == FALSE

\* lines 119 / 131: if rc == cConfigFalse
WriteFailed(rc) == rc = cConfigFalse

WriteBody(t, io) ==
    /\ ~crashed
    /\ pc[t] = "wf_write"
    /\ LET w == config_write_file(cRoot[op[t].c], TargetPath(t), io)
       IN /\ store' = w.store
          /\ wrote' = [wrote EXCEPT ![t] = (w.rc = cConfigTrue)]
          /\ IF WriteFailed(w.rc)
                THEN Return(t, "err", NilSetting)
                ELSE /\ pc' = [pc EXCEPT ![t] = "wf_unlock"]
                     /\ ret' = ret
    /\ UNCHANGED <<confVars, lockVars, op, held, pre, crashed>>

\* lines 122-123 / 134-135: mutex.Unlock(), on the instance mutex points to now, then
\* return nil.  An Unlock of an instance no writer holds is a fatal error of the runtime.
WriteUnlock(t) ==
    /\ ~crashed
    /\ pc[t] = "wf_unlock"
    /\ IF lockW[mutex]
         THEN /\ lockW' = [lockW EXCEPT ![mutex] = FALSE]
              /\ Return(t, "ok", op[t].res)
              /\ crashed' = crashed
         ELSE /\ crashed' = TRUE
              /\ UNCHANGED <<lockW, pc, ret>>
    /\ UNCHANGED <<confVars, mutex, lockR, store, op, held, pre, wrote>>

(***************************************************************************)
(* The C setters and tree functions the Go methods call.                   *)
(***************************************************************************)
AutoConvert(options) == (options \div ConfigOptionAutoConvert) % 2 = 1

\* config_setting_set_int / _int64 / _float / _bool / _string: the value is stored when
\* the setting has the type of the value; with the auto-convert option an integer is
\* stored into a floating point setting as a float, and a float into an integer
\* setting as (int)value.  Any other setting is left alone and CONFIG_FALSE returned.
config_setting_set(n, kind, val, options) ==
    IF n.type = kind
    THEN [rc |-> cConfigTrue, node |-> [n EXCEPT !.val = val]]
    ELSE IF AutoConvert(options) /\ n.type = CConfigTypeFloat
                                 /\ kind \in {CConfigTypeInt, CConfigTypeInt64}
    THEN [rc |-> cConfigTrue, node |-> [n EXCEPT !.val = IntToFloat(val)]]
    ELSE IF AutoConvert(options) /\ n.type \in {CConfigTypeInt, CConfigTypeInt64}
                                 /\ kind = CConfigTypeFloat
    THEN [rc |-> cConfigTrue, node |-> [n EXCEPT !.val = FloatToInt(val)]]
    ELSE [rc |-> cConfigFalse, node |-> n]

\* config_setting_get_int / _int64 / _float / _bool / _string: the value of a setting
\* of the type asked for; with the auto-convert option a floating point setting is
\* read as an integer and an integer setting as a float; for any other setting the
\* result is 0, 0.0, false or NULL.
config_setting_get(n, kind, options) ==
    IF n.type = kind THEN n.val
    ELSE IF AutoConvert(options) /\ n.type = CConfigTypeFloat
                                 /\ kind \in {CConfigTypeInt, CConfigTypeInt64}
    THEN FloatToInt(n.val)
    ELSE IF AutoConvert(options) /\ n.type \in {CConfigTypeInt, CConfigTypeInt64}
                                 /\ kind = CConfigTypeFloat
    THEN IntToFloat(n.val)
    ELSE 0

\* cSetting.parent: the setting above, NULL at the root.
config_setting_parent(h) == IF h = <<>> THEN NilSetting ELSE SubSeq(h, 1, Len(h) - 1)

\* config_setting_get_elem: the position (from 1) of element idx, 0 for NULL.
config_setting_get_elem(n, idx) ==
    IF n.type \in ContainerKinds /\ 0 <= idx /\ idx < Len(n.kids) THEN idx + 1 ELSE 0

\* An array takes elements of one scalar type only.
ListCheckType(n, kind) ==
    n.type = CConfigTypeArray => (kind \in ScalarKinds /\ (n.kids = <<>> \/ n.kids[1].type = kind))

\* config_setting_set_int_elem / ...: NULL unless the setting is an array or a list;
\* a negative idx appends a new element; else the element at idx is set, NULL when
\* there is none or it does not take the value.
config_setting_set_elem(n, idx, kind, val, options) ==
    IF n.type \notin {CConfigTypeArray, CConfigTypeList} THEN [pos |-> 0, node |-> n]
    ELSE IF idx < 0
    THEN IF ListCheckType(n, kind)
         THEN [pos |-> Len(n.kids) + 1,
               node |-> [n EXCEPT !.kids = Append(@, Node(NoName, kind, val, <<>>))]]
         ELSE [pos |-> 0, node |-> n]
    ELSE LET pos == config_setting_get_elem(n, idx)
             r == config_setting_set(n.kids[pos], kind, val, options)
         IN IF pos = 0 \/ r.rc = cConfigFalse
            THEN [pos |-> 0, node |-> n]
            ELSE [pos |-> pos, node |-> [n EXCEPT !.kids[pos] = r.node]]

\* config_setting_get_member: the position of the child of a group with that name.
config_setting_get_member(n, nm) ==
    IF n.type = CConfigTypeGroup /\ \E i \in 1..Len(n.kids) : n.kids[i].name = nm
    THEN CHOOSE i \in 1..Len(n.kids) : n.kids[i].name = nm
    ELSE 0

\* config_setting_add: NULL unless the parent is a container, an array gets a scalar,
\* and no member of the group has the name; list and array elements get no name.
config_setting_add(n, nm, kind) ==
    LET name == IF n.type \in {CConfigTypeArray, CConfigTypeList} THEN NoName ELSE nm
    IN IF \/ n.type \notin ContainerKinds
          \/ (n.type = CConfigTypeArray /\ kind \notin ScalarKinds)
          \/ (n.type = CConfigTypeGroup /\ name = NoName)
          \/ config_setting_get_member(n, name) # 0
       THEN [pos |-> 0, node |-> n]
       ELSE [pos |-> Len(n.kids) + 1,
             node |-> [n EXCEPT !.kids = Append(@, Node(name, kind, 0, <<>>))]]

\* config_setting_remove: the named member of a group is removed.
config_setting_remove(n, nm) ==
    LET pos == config_setting_get_member(n, nm)
    IN IF pos = 0 THEN [rc |-> cConfigFalse, node |-> n]
       ELSE [rc |-> cConfigTrue, node |-> [n EXCEPT !.kids = RemoveIndex(@, pos)]]

\* C.uint(index): a negative Go int becomes an unsigned number of 2^31 or more,
\* above every length; it is held at the largest number TLC represents.
CUint(index) == IF index < 0 THEN 2147483647 ELSE index

\* config_setting_remove_elem: the child at idx of a container is removed; the later
\* children move down by one.
config_setting_remove_elem(n, idx) ==
    IF n.type \in ContainerKinds /\ idx < Len(n.kids)
    THEN [rc |-> cConfigTrue, node |-> [n EXCEPT !.kids = RemoveIndex(@, idx + 1)]]
    ELSE [rc |-> cConfigFalse, node |-> n]

\* config_setting_length: the number of children of a container, 0 for a scalar.
config_setting_length(n) == IF n.type \in ContainerKinds THEN Len(n.kids) ELSE 0

\* config_setting_index: the index of the setting among its parent's children, -1
\* for the root.
config_setting_index(h) == IF h = <<>> THEN -1 ELSE h[Len(h)] - 1

\* The setting under h at position pos; NULL for position 0.
Child(h, pos) == IF pos = 0 THEN NilSetting ELSE Append(h, pos)

\* The settings that may get children in the model: the root and its children.
ParentSettings(root) == {h \in Settings(root) : Len(h) <= 1}

(***************************************************************************)
(* func (s *Setting) ConfigSettingSetByType, lines 306-357.                *)
(***************************************************************************)
\* The switch of lines 308-355: a scalar type calls its C setter; any other type has
\* no case.
SetInMemory(root, h, kind, val, options) ==
    LET r == IF kind \in ScalarKinds
             THEN config_setting_set(NodeAt(root, h), kind, val, options)
             ELSE [rc |-> cConfigFalse, node |-> NodeAt(root, h)]
    IN [rc |-> r.rc, root |-> ReplaceAt(root, h, r.node)]

\* Faulty variant: the setter's result is not followed by a WriteFile.
SetPersistsNever(rc) == FALSE

\* lines 311 / 319 / ...: WriteFile is called when the setter returned cConfigTrue.
SetPersists(rc) == rc = cConfigTrue

ConfigSettingSetByType(t, c, h, kind, val) ==
    /\ MayStart(t, "Set", c)
    /\ h \in Settings(cRoot[c])
    /\ LET r == SetInMemory(cRoot[c], h, kind, val, cOptions[c])
           call == [Call("Set", c, h, kind, val, 0, NoName, NoPath, NilSetting) EXCEPT !.rc = r.rc]
       IN /\ cRoot' = [cRoot EXCEPT ![c] = r.root]
          /\ IF SetPersists(r.rc)
                THEN /\ Enter(t, call, "wf_lock", Snapshot(c))
                     /\ ret' = ret
                ELSE \* line 356: return nil
                     /\ Enter(t, call, "idle", Snapshot(c))
                     /\ Result(t, "ok", NilSetting)
    /\ UNCHANGED <<nTrees, cTabWidth, configFile, cOptions, lockVars, store, crashed>>

(***************************************************************************)
(* func (s *Setting) ConfigSettingSetElmByType, lines 439-490.             *)
(***************************************************************************)
ConfigSettingSetElmByType(t, c, h, idx, kind, val) ==
    /\ MayStart(t, "SetElm", c)
    /\ h \in ParentSettings(cRoot[c])
    /\ idx < 0 => Len(NodeAt(cRoot[c], h).kids) < MaxLen
    /\ LET r == config_setting_set_elem(NodeAt(cRoot[c], h), idx, kind, val, cOptions[c])
           call == Call("SetElm", c, h, kind, val, idx, NoName, NoPath, Child(h, r.pos))
       IN IF kind \in ScalarKinds
          THEN \* the setter's result is stored, and WriteFile called, whatever it is
               /\ cRoot' = [cRoot EXCEPT ![c] = ReplaceAt(@, h, r.node)]
               /\ Enter(t, call, "wf_lock", Snapshot(c))
               /\ ret' = ret
          ELSE \* no case: line 489, return nil, error
               /\ cRoot' = cRoot
               /\ Enter(t, [call EXCEPT !.res = h], "idle", Snapshot(c))
               /\ Result(t, "err", NilSetting)
    /\ UNCHANGED <<nTrees, cTabWidth, configFile, cOptions, lockVars, store, crashed>>

(***************************************************************************)
(* func (s *Setting) ConfigSettingAdd, lines 500-513.                      *)
(***************************************************************************)
ConfigSettingAdd(t, c, h, nm, kind, val) ==
    /\ MayStart(t, "Add", c)
    /\ h \in ParentSettings(cRoot[c])
    /\ config_setting_add(NodeAt(cRoot[c], h), nm, kind).pos <= MaxLen
    /\ LET a == config_setting_add(NodeAt(cRoot[c], h), nm, kind)
           new == Child(h, a.pos)
           added == ReplaceAt(cRoot[c], h, a.node)
       IN IF a.pos = 0
          THEN \* line 507 reads setting.cSetting.name through the nil pointer
               /\ cRoot' = cRoot
               /\ Enter(t, Call("Add", c, h, kind, val, 0, nm, NoPath, NilSetting), "panicked", Snapshot(c))
               /\ ret' = ret
          ELSE LET r == SetInMemory(added, new, kind, val, cOptions[c])
                   call == [Call("Add", c, h, kind, val, 0, nm, NoPath, new) EXCEPT !.rc = r.rc]
               IN /\ cRoot' = [cRoot EXCEPT ![c] = r.root]
                  /\ IF SetPersists(r.rc)
                        THEN /\ Enter(t, call, "wf_lock", Snapshot(c))
                             /\ ret' = ret
                        ELSE \* the set returned nil: line 512, return setting
                             /\ Enter(t, call, "idle", Snapshot(c))
                             /\ Result(t, "ok", new)
    /\ UNCHANGED <<nTrees, cTabWidth, configFile, cOptions, lockVars, store, crashed>>

(***************************************************************************)
(* func (s *Setting) ConfigSettingRemove, lines 515-519, and                *)
(* ConfigSettingRemoveElm, lines 521-523: the C function's result is       *)
(* returned; nothing else is called.                                       *)
(***************************************************************************)
\* Faulty variant: a removal that took place is followed by a WriteFile.
ConfigSettingRemoveWriting(t, c, h, nm) ==
    /\ MayStart(t, "Remove", c)
    /\ h \in ParentSettings(cRoot[c])
    /\ LET r == config_setting_remove(NodeAt(cRoot[c], h), nm)
           call == [Call("Remove", c, h, 0, 0, 0, nm, NoPath, NilSetting) EXCEPT !.rc = r.rc]
       IN /\ cRoot' = [cRoot EXCEPT ![c] = ReplaceAt(@, h, r.node)]
          /\ IF r.rc = cConfigTrue
                THEN /\ Enter(t, call, "wf_lock", Snapshot(c))
                     /\ ret' = ret
                ELSE /\ Enter(t, call, "idle", Snapshot(c))
                     /\ Result(t, "err", NilSetting)
    /\ UNCHANGED <<nTrees, cTabWidth, configFile, cOptions, lockVars, store, crashed>>

ConfigSettingRemove(t, c, h, nm) ==
    /\ MayStart(t, "Remove", c)
    /\ h \in ParentSettings(cRoot[c])
    /\ LET r == config_setting_remove(NodeAt(cRoot[c], h), nm)
       IN /\ cRoot' = [cRoot EXCEPT ![c] = ReplaceAt(@, h, r.node)]
          /\ Enter(t, [Call("Remove", c, h, 0, 0, 0, nm, NoPath, NilSetting) EXCEPT !.rc = r.rc],
                   "idle", Snapshot(c))
          /\ Result(t, IF r.rc = cConfigTrue THEN "ok" ELSE "err", NilSetting)
    /\ UNCHANGED <<nTrees, cTabWidth, configFile, cOptions, lockVars, store, crashed>>

ConfigSettingRemoveElm(t, c, h, index) ==
    /\ MayStart(t, "RemoveElm", c)
    /\ h \in ParentSettings(cRoot[c])
    /\ LET r == config_setting_remove_elem(NodeAt(cRoot[c], h), CUint(index))
       IN /\ cRoot' = [cRoot EXCEPT ![c] = ReplaceAt(@, h, r.node)]
          /\ Enter(t, [Call("RemoveElm", c, h, 0, 0, index, NoName, NoPath, NilSetting) EXCEPT !.rc = r.rc],
                   "idle", Snapshot(c))
          /\ Result(t, IF r.rc = cConfigTrue THEN "ok" ELSE "err", NilSetting)
    /\ UNCHANGED <<nTrees, cTabWidth, configFile, cOptions, lockVars, store, crashed>>

(***************************************************************************)
(* func (s *Setting) ConfigSettingGetByType, lines 290-304: the C getter's *)
(* result is returned as the value; a type with no case returns nil.  The  *)
(* method has no error result.                                             *)
(***************************************************************************)
ConfigSettingGetByType(t, c, h, kind) ==
    /\ MayStart(t, "Get", c)
    /\ h \in Settings(cRoot[c])
    /\ Enter(t, Call("Get", c, h, kind, 0, 0, NoName, NoPath, h), "idle", Snapshot(c))
    /\ IF kind \in ScalarKinds
          THEN ResultValue(t, "value", config_setting_get(NodeAt(cRoot[c], h), kind, cOptions[c]))
          ELSE ResultValue(t, "nil", 0)
    /\ UNCHANGED <<confVars, lockVars, store, crashed>>

(***************************************************************************)
(* func (s *Setting) ConfigSettingIsRoot, lines 261-265, and               *)
(* GetConfigSettingParent, lines 267-277.                                  *)
(***************************************************************************)
\* line 264: s.cSetting.parent == nil || s.cSetting.parent.name == nil
IsRoot(root, h) ==
    \/ config_setting_parent(h) = NilSetting
    \/ NodeAt(root, config_setting_parent(h)).name = NoName

ConfigSettingIsRoot(t, c, h) ==
    /\ MayStart(t, "IsRoot", c)
    /\ h \in Settings(cRoot[c])
    /\ Enter(t, Call("IsRoot", c, h, 0, 0, 0, NoName, NoPath, h), "idle", Snapshot(c))
    /\ ResultValue(t, "value", IF IsRoot(cRoot[c], h) THEN 1 ELSE 0)
    /\ UNCHANGED <<confVars, lockVars, store, crashed>>

\* lines 268-270: nil when ConfigSettingIsRoot says so; else a handle on the parent.
GetConfigSettingParent(t, c, h) ==
    /\ MayStart(t, "Parent", c)
    /\ h \in Settings(cRoot[c])
    /\ Enter(t, Call("Parent", c, h, 0, 0, 0, NoName, NoPath, h), "idle", Snapshot(c))
    /\ Result(t, "ok", IF IsRoot(cRoot[c], h) THEN NilSetting ELSE config_setting_parent(h))
    /\ UNCHANGED <<confVars, lockVars, store, crashed>>

(***************************************************************************)
(* func (c *LibConfig) ConfigSetOptions, lines 201-203.                    *)
(***************************************************************************)
ConfigSetOptions(t, c, options) ==
    /\ MayStart(t, "SetOptions", c)
    /\ cOptions' = [cOptions EXCEPT ![c] = options]
    /\ Enter(t, Call("SetOptions", c, <<>>, 0, options, 0, NoName, NoPath, NilSetting), "idle", NoPre)
    /\ Result(t, "ok", NilSetting)
    /\ UNCHANGED <<nTrees, cTabWidth, configFile, cRoot, lockVars, store, crashed>>

(***************************************************************************)
(* func (c *LibConfig) ConfigGetTabWidth, lines 213-215, and               *)
(* ConfigSetTabWidth, lines 217-219.                                       *)
(***************************************************************************)
\* The 0x0F of line 218.
TabWidthMask == 15

\* Faulty variant: the mask is not applied.
BitKeep(a, b) == a

\* a & b on unsigned numbers, bit by bit.
RECURSIVE BitAnd(_, _)
BitAnd(a, b) ==
    IF a = 0 \/ b = 0 THEN 0
    ELSE (a % 2) * (b % 2) + 2 * BitAnd(a \div 2, b \div 2)

\* int16(x) of a C.ushort x.
Int16(x) == IF x >= 32768 THEN x - 65536 ELSE x

ConfigSetTabWidth(t, c, tabWidth) ==
    /\ MayStart(t, "SetTabWidth", c)
    /\ cTabWidth' = [cTabWidth EXCEPT ![c] = BitAnd(tabWidth, TabWidthMask)]
    /\ Enter(t, Call("SetTabWidth", c, <<>>, 0, tabWidth, 0, NoName, NoPath, NilSetting), "idle", NoPre)
    /\ Result(t, "ok", NilSetting)
    /\ UNCHANGED <<nTrees, configFile, cRoot, cOptions, lockVars, store, crashed>>

ConfigGetTabWidth(t, c) ==
    /\ MayStart(t, "GetTabWidth", c)
    /\ Enter(t, Call("GetTabWidth", c, <<>>, 0, 0, 0, NoName, NoPath, NilSetting), "idle", NoPre)
    /\ ResultValue(t, "value", Int16(cTabWidth[c]))
    /\ UNCHANGED <<confVars, lockVars, store, crashed>>

(***************************************************************************)
(* One caller working on the settings of one configuration.  The inputs:   *)
(*   set          any setting; the Int 2, the Float 2.0 or the String 2    *)
(*   set_element  a list or array; index -1..MaxLen; the String 2, or the  *)
(*                kind List, which has no setter                           *)
(*   add          to a list: a String; else: a = Int 2 or b = an empty List *)
(*   remove       either name; remove_element: index -1..MaxLen            *)
(* The file "f" is there to be read; a write may fail.                     *)
(***************************************************************************)
GetInputs == {CConfigTypeInt, CConfigTypeFloat, CConfigTypeList}
SetInputs == {<<CConfigTypeInt, 2>>, <<CConfigTypeFloat, 4>>, <<CConfigTypeString, 2>>}
ElmInputs == {<<CConfigTypeString, 2>>, <<CConfigTypeList, 0>>}
Indices == -1..MaxLen

AddInputs(n) ==
    IF n.type = CConfigTypeList
    THEN {<<"a", CConfigTypeString, 2>>}
    ELSE {<<"a", CConfigTypeInt, 2>>, <<"b", CConfigTypeList, 0>>}

ElmParents(root) ==
    {h \in ParentSettings(root) : NodeAt(root, h).type \in {CConfigTypeArray, CConfigTypeList}}

Next ==
    \/ ReadFile(1, 1, "f")
    \/ ReadFileRLock(1)
    \/ ReadFileRead(1, TRUE)
    \/ ReadFileRUnlock(1)
    \/ \E text \in Texts : ReadString(1, 1, text)
    \/ ReadStringRead(1)
    \/ \E options \in {0, ConfigOptionAutoConvert} : ConfigSetOptions(1, 1, options)
    \/ \E h \in Settings(cRoot[1]), in \in SetInputs :
          ConfigSettingSetByType(1, 1, h, in[1], in[2])
    \/ \E h \in ElmParents(cRoot[1]), idx \in Indices, in \in ElmInputs :
          ConfigSettingSetElmByType(1, 1, h, idx, in[1], in[2])
    \/ \E h \in ParentSettings(cRoot[1]) :
          \E in \in AddInputs(NodeAt(cRoot[1], h)) :
             ConfigSettingAdd(1, 1, h, in[1], in[2], in[3])
    \/ \E h \in ParentSettings(cRoot[1]), nm \in Names : ConfigSettingRemove(1, 1, h, nm)
    \/ \E h \in ParentSettings(cRoot[1]), idx \in Indices : ConfigSettingRemoveElm(1, 1, h, idx)
    \/ WriteLock(1)
    \/ \E io \in BOOLEAN : WriteBody(1, io)
    \/ WriteUnlock(1)

Spec == Init /\ [][Next]_vars

(* ---- the two goroutines, the store-facing calls only ---- *)
NextConc ==
    \/ \E t \in Threads : NewLibConfig(t)
    \/ \E t \in Threads, c \in TreeIds : ReadFile(t, c, "f")
    \/ \E t \in Threads : ReadFileRLock(t)
    \/ \E t \in Threads, io \in BOOLEAN : ReadFileRead(t, io)
    \/ \E t \in Threads : ReadFileRUnlock(t)
    \/ \E t \in Threads, c \in TreeIds : ReadString(t, c, Serialize(SampleRoot))
    \/ \E t \in Threads : ReadStringRead(t)
    \/ \E t \in Threads, c \in TreeIds : WriteFile(t, c)
    \/ \E t \in Threads, c \in TreeIds : WriteToFile(t, c, "g")
    \/ \E t \in Threads : WriteLock(t)
    \/ \E t \in Threads, io \in BOOLEAN : WriteBody(t, io)
    \/ \E t \in Threads : WriteUnlock(t)

SpecConc == Init /\ [][NextConc]_vars

(***************************************************************************)
(* One caller reading the settings of a configuration loaded from a text:  *)
(*   get                  any setting; as Int, as Float, or as List, which *)
(*                        has no getter                                    *)
(*   is_root, parent_of   any setting                                      *)
(* with removals and the auto-convert option in between.                   *)
(***************************************************************************)
NextQuery ==
    \/ \E text \in Texts : ReadString(1, 1, text)
    \/ ReadStringRead(1)
    \/ \E options \in {0, ConfigOptionAutoConvert} : ConfigSetOptions(1, 1, options)
    \/ \E h \in ParentSettings(cRoot[1]), nm \in Names : ConfigSettingRemove(1, 1, h, nm)
    \/ \E h \in ParentSettings(cRoot[1]), idx \in Indices : ConfigSettingRemoveElm(1, 1, h, idx)
    \/ \E h \in Settings(cRoot[1]), kind \in GetInputs : ConfigSettingGetByType(1, 1, h, kind)
    \/ \E h \in Settings(cRoot[1]) : ConfigSettingIsRoot(1, 1, h)
    \/ \E h \in Settings(cRoot[1]) : GetConfigSettingParent(1, 1, h)

SpecQuery == Init /\ [][NextQuery]_vars

(* ---- one caller setting and reading the tab width of its configurations ---- *)
\* uint16 arguments: below the mask, at it, above it, and the largest.
TabWidths == {0, 1, 15, 16, 17, 255, 4660, 65535}

NextTab ==
    \/ NewLibConfig(1)
    \/ \E c \in TreeIds, tabWidth \in TabWidths : ConfigSetTabWidth(1, c, tabWidth)
    \/ \E c \in TreeIds : ConfigGetTabWidth(1, c)

SpecTab == Init /\ [][NextTab]_vars

(* ---- one caller, the store-facing calls, every path ---- *)
NextStore ==
    \/ NewLibConfig(1)
    \/ \E c \in TreeIds, path \in Paths : ReadFile(1, c, path)
    \/ ReadFileRLock(1)
    \/ \E io \in BOOLEAN : ReadFileRead(1, io)
    \/ ReadFileRUnlock(1)
    \/ \E c \in TreeIds, text \in Texts : ReadString(1, c, text)
    \/ ReadStringRead(1)
    \/ \E c \in TreeIds : WriteFile(1, c)
    \/ \E c \in TreeIds, path \in Paths : WriteToFile(1, c, path)
    \/ WriteLock(1)
    \/ \E io \in BOOLEAN : WriteBody(1, io)
    \/ WriteUnlock(1)

SpecStore == Init /\ [][NextStore]_vars

(***************************************************************************)
(* The claims.                                                             *)
(***************************************************************************)
\* The call the goroutine has returned from.
Done(t, name) == pc[t] = "idle" /\ op[t].name = name
\* Between a successful Lock and the return of WriteFile / WriteToFile.
InWriteSection(t) == pc[t] \in {"wf_write", "wf_unlock"}
InLoad(t) == pc[t] \in {"rf_read", "rs_read"}
\* The setting the call was made on, as the call found it and as it is now.
Before(t) == NodeAt(pre[t].root, op[t].h)
Now(t) == NodeAt(cRoot[op[t].c], op[t].h)
BackingFile(t) == store[configFile[op[t].c]]

\* C1: at most one goroutine at a time is inside the store-writing section of
\* WriteFile / WriteToFile, whatever configurations the persists are on and whenever
\* NewLibConfig runs.
C1_PersistsExclude == Cardinality({t \in Threads : InWriteSection(t)}) <= 1

\* C2: a goroutine inside ReadFile or ReadString holds the lock in read mode, and no
\* goroutine is inside a persist's write section meanwhile.
C2_LoadsHoldReadLock ==
    \A t \in Threads :
        InLoad(t) => /\ held[t] # 0
                     /\ lockR[held[t]] > 0
                     /\ \A u \in Threads \ {t} : ~InWriteSection(u)

\* C3: when a set with the setting's own scalar kind returns success, the call has
\* written the store, and the file at configFile holds the serialization of the tree,
\* the new value in it.
C3_SetReturnsPersisted ==
    \A t \in Threads :
        (Done(t, "Set") /\ ret[t].status = "ok" /\ op[t].kind \in ScalarKinds
                        /\ Before(t).type = op[t].kind)
        => /\ wrote[t]
           /\ Now(t).val = op[t].val
           /\ configFile[op[t].c] # NoPath
           /\ BackingFile(t) = Serialize(cRoot[op[t].c])

\* C3's case: a set has returned success after changing the value and the file.
C3_Witness ==
    \E t \in Threads :
        /\ Done(t, "Set") /\ ret[t].status = "ok"
        /\ Before(t).type = op[t].kind
        /\ Before(t).val # op[t].val
        /\ pre[t].store # store

\* C4: a set with a kind that is not the setting's kind returns a failure.
C4_WrongKindSetFails ==
    \A t \in Threads :
        (Done(t, "Set") /\ Before(t).type # op[t].kind) => ret[t].status = "err"

\* C5: a set with a kind that is not the setting's kind changes nothing: the tree and
\* the store are as the call found them, and the store was not written.
C5_WrongKindSetChangesNothing ==
    \A t \in Threads :
        (Done(t, "Set") /\ Before(t).type # op[t].kind)
        => /\ cRoot[op[t].c] = pre[t].root
           /\ store = pre[t].store
           /\ ~wrote[t]

\* C6: when the setter stored the value and the write-back failed, set returns an
\* error, the tree is the updated one (no rollback), the store is as it was, and so,
\* where the file held the tree before and the value changed, tree and file differ.
C6_FailedPersistKeepsValue ==
    \A t \in Threads :
        (Done(t, "Set") /\ op[t].rc = cConfigTrue /\ ~wrote[t])
        => /\ ret[t].status = "err"
           /\ cRoot[op[t].c] =
                 SetInMemory(pre[t].root, op[t].h, op[t].kind, op[t].val, cOptions[op[t].c]).root
           /\ (Before(t).type = op[t].kind => Now(t).val = op[t].val)
           /\ store = pre[t].store
           /\ (/\ configFile[op[t].c] # NoPath
               /\ pre[t].store[configFile[op[t].c]] = Serialize(pre[t].root)
               /\ Now(t) # Before(t))
              => BackingFile(t) # Serialize(cRoot[op[t].c])

\* C6's case: a set changed the value, its write to the file "f" failed, and the
\* file still spells the old tree.
C6_Witness ==
    \E t \in Threads :
        /\ Done(t, "Set") /\ op[t].rc = cConfigTrue /\ ~wrote[t]
        /\ ret[t].status = "err"
        /\ Now(t).val = op[t].val /\ Before(t).val # op[t].val
        /\ configFile[op[t].c] = "f"
        /\ BackingFile(t) = Serialize(pre[t].root)

\* C7: a set_element with an index outside [0, length) returns an error and no
\* handle, changes no setting and does not write the store.
C7_SetElmOutOfRangeFails ==
    \A t \in Threads :
        (Done(t, "SetElm") /\ (op[t].idx < 0 \/ op[t].idx >= Len(Before(t).kids)))
        => /\ ret[t].status = "err"
           /\ ret[t].h = NilSetting
           /\ cRoot[op[t].c] = pre[t].root
           /\ ~wrote[t]
           /\ store = pre[t].store

\* C8: when add reports failure, the parent has the children it had before the call.
C8_AddAllOrNothing ==
    \A t \in Threads :
        (Done(t, "Add") /\ ret[t].status = "err") => Now(t).kids = Before(t).kids

\* C9: an add to a group that has a member of that name returns a failure, normally,
\* and leaves the group's children as they were.
C9_DuplicateAddFails ==
    \A t \in Threads :
        (/\ op[t].name = "Add"
         /\ Before(t).type = CConfigTypeGroup
         /\ \E i \in 1..Len(Before(t).kids) : Before(t).kids[i].name = op[t].nm)
        => /\ pc[t] = "idle"
           /\ ret[t].status = "err"
           /\ Now(t).kids = Before(t).kids

\* C10: when add returns a handle, whatever the kind of the new child, the call has
\* written the store and the file holds the tree with the new child.
C10_AddReturnsPersisted ==
    \A t \in Threads :
        (Done(t, "Add") /\ ret[t].status = "ok" /\ ret[t].h # NilSetting)
        => /\ wrote[t]
           /\ configFile[op[t].c] # NoPath
           /\ BackingFile(t) = Serialize(cRoot[op[t].c])

\* C11: a successful remove_element at index i leaves a container one shorter; the
\* children before i are where they were, the child formerly at i + 1 is found at i,
\* and so on: every surviving child's index is its position in 0..length-1.
C11_RemoveElmReindexes ==
    \A t \in Threads :
        (Done(t, "RemoveElm") /\ ret[t].status = "ok")
        => /\ config_setting_length(Now(t)) = config_setting_length(Before(t)) - 1
           /\ \A i \in 0..(config_setting_length(Now(t)) - 1) :
                 LET pos == config_setting_get_elem(Now(t), i)
                 IN /\ pos # 0
                    /\ config_setting_index(Child(op[t].h, pos)) = i
                    /\ Now(t).kids[pos] =
                          Before(t).kids[IF i < op[t].idx THEN i + 1 ELSE i + 2]

\* C11's case: index 0 of a list of two different strings was removed, and the
\* second string is now found at index 0.
C11_Witness ==
    \E t \in Threads :
        /\ Done(t, "RemoveElm") /\ ret[t].status = "ok" /\ op[t].idx = 0
        /\ Before(t).type = CConfigTypeList
        /\ Len(Before(t).kids) = 2
        /\ Before(t).kids[1] # Before(t).kids[2]
        /\ Now(t).kids = <<Before(t).kids[2]>>

\* C12: when WriteToFile(path) has returned, configFile is that path, so that a later
\* WriteFile writes there.
C12_PersistAsSetsPath ==
    \A t \in Threads : Done(t, "WriteToFile") => configFile[op[t].c] = op[t].path

\* C13: a WriteFile on a configuration whose configFile is empty writes no file and
\* returns an error; a WriteFile that has returned success had a configFile.
C13_PersistNeedsPath ==
    [][\A t \in Threads :
          /\ (pc[t] = "wf_write" /\ pc'[t] # "wf_write" /\ op[t].name = "WriteFile"
                                 /\ configFile[op[t].c] = NoPath)
             => /\ store' = store
                /\ ~wrote'[t]
                /\ pc'[t] = "idle"
                /\ ret'[t].status = "err"
          /\ (pc'[t] = "idle" /\ op'[t].name = "WriteFile" /\ ret'[t].status = "ok")
             => configFile'[op'[t].c] # NoPath]_vars

\* C13's case: a configuration filled by ReadString, with no configFile, was handed
\* to WriteFile, which returned an error and wrote nothing.
C13_Witness ==
    \E t \in Threads :
        /\ Done(t, "WriteFile") /\ ret[t].status = "err" /\ ~wrote[t]
        /\ configFile[op[t].c] = NoPath
        /\ cRoot[op[t].c] = SampleRoot
        /\ store["g"] = NoFile

\* C14: a get with a kind that is not the setting's kind does not return a value.
C14_WrongKindGetFails ==
    \A t \in Threads :
        (Done(t, "Get") /\ Before(t).type # op[t].kind) => ret[t].status # "value"

\* C15: is_root is true exactly for the setting with no parent, parent_of is nil
\* exactly for that setting, and the parent of a child of the root is the root.
C15_IsRootIffNoParent ==
    \A t \in Threads :
        /\ Done(t, "IsRoot") => (ret[t].val = 1 <=> op[t].h = <<>>)
        /\ Done(t, "Parent") => /\ ret[t].h = NilSetting <=> op[t].h = <<>>
                                /\ Len(op[t].h) = 1 => ret[t].h = <<>>

\* C16: the tab width of every configuration is in 0..15; after ConfigSetTabWidth it
\* is the argument's low four bits; ConfigGetTabWidth returns it.
C16_TabWidthLowFourBits ==
    /\ \A c \in Live : cTabWidth[c] \in 0..15
    /\ \A t \in Threads :
          /\ Done(t, "SetTabWidth") => cTabWidth[op[t].c] = op[t].val % 16
          /\ Done(t, "GetTabWidth") => ret[t].val = cTabWidth[op[t].c]

\* C16's case: after a ConfigSetTabWidth(0x1234), ConfigGetTabWidth has returned 4.
C16_Witness ==
    \E t \in Threads :
        /\ Done(t, "GetTabWidth") /\ ret[t].status = "value" /\ ret[t].val = 4
        /\ cTabWidth[op[t].c] = 4

\* C17: when no call is running, every call has returned, no lock instance is held,
\* in write mode or in read mode.
C17_ReturnedCallsHoldNoLock ==
    (\A t \in Threads : pc[t] = "idle")
    => \A m \in LockIds : ~lockW[m] /\ lockR[m] = 0

\* C18: a call about to unlock unlocks the instance it locked, and no unlock of an
\* instance that is not held (a fatal error of the runtime) has happened.
C18_UnlocksWhatItHolds ==
    /\ ~crashed
    /\ \A t \in Threads : pc[t] \in {"rf_unlock", "wf_unlock"} => held[t] = mutex

\* C19: a remove or remove_element that has returned took no lock and wrote no file:
\* the store is as the call found it, so a file that spelled the tree before a
\* removal still spells it, the removed setting included, and differs from the tree.
C19_RemoveLeavesStore ==
    \A t \in Threads :
        (Done(t, "Remove") \/ Done(t, "RemoveElm"))
        => /\ held[t] = 0
           /\ ~wrote[t]
           /\ store = pre[t].store
           /\ (/\ ret[t].status = "ok"
               /\ configFile[op[t].c] # NoPath
               /\ pre[t].store[configFile[op[t].c]] = Serialize(pre[t].root))
              => /\ BackingFile(t) = Serialize(pre[t].root)
                 /\ BackingFile(t) # Serialize(cRoot[op[t].c])

\* C19's case: the member a was removed from a configuration read from the file
\* "f", and the file still has it.
C19_Witness ==
    \E t \in Threads :
        /\ Done(t, "Remove") /\ ret[t].status = "ok" /\ op[t].nm = "a" /\ op[t].h = <<>>
        /\ configFile[op[t].c] = "f"
        /\ config_setting_get_member(Parse(BackingFile(t)), "a") # 0
        /\ config_setting_get_member(cRoot[op[t].c], "a") = 0

\* C20: configFile changes only in ReadFile, and ReadFile leaves it at its argument
\* whether the file was read or not; so it is the argument of the last ReadFile.
C20_PathIsLastReadFile ==
    [][\A c \in TreeIds :
          /\ configFile'[c] # configFile[c]
             => \E t \in Threads : /\ pc[t] = "rf_read" /\ pc'[t] # "rf_read"
                                   /\ op[t].c = c
                                   /\ configFile'[c] = op[t].path
          /\ \A t \in Threads :
                (pc[t] = "rf_read" /\ pc'[t] # "rf_read" /\ op[t].c = c)
                => configFile'[c] = op[t].path]_vars

\* C20's case: after a ReadFile of "f", a ReadFile of the missing file "g" has
\* failed, a WriteToFile has returned, and configFile is "g".
C20_Witness ==
    \E t \in Threads :
        /\ Done(t, "WriteToFile") /\ ret[t].status = "ok" /\ op[t].path = "f"
        /\ configFile[op[t].c] = "g"
        /\ store["g"] = NoFile
        /\ cRoot[op[t].c] = SampleRoot

====
